---- MODULE Spec2Model ----
(***************************************************************************)
(* FRIDA DRP: the linear wavelength calibration class                      *)
(* (fridadrp/processing/linear_wavelength_calibration.py) and the          *)
(* command-line IFU simulator (fridadrp/tools/frida_ifu_simulator.py).     *)
(*                                                                         *)
(* Numbers are exact rationals [n, d] (d > 0, lowest terms); d = 0 stands  *)
(* for the non-finite results of a float division by zero (n = 1: inf,     *)
(* n = -1: -inf, n = 0: nan).  Rounding of binary floats is not modelled.  *)
(* A physical unit is a vector of exponents over (micrometer, pix, second) *)
(* with a decimal scale 10^k; an astropy Quantity is a value with q = TRUE *)
(* and a unit, a bare Python number is a value with q = FALSE.             *)
(***************************************************************************)
EXTENDS Integers, Sequences, FiniteSets, TLC

VARIABLES
    cal,        \* the calibration instance under use (its __dict__), or NoInstance
    other,      \* a second instance, the right-hand side of ==
    last,       \* the last library call: its arguments and its outcome
    pc,         \* simulator: position of main()
    argv,       \* simulator: sys.argv length and the parsed arguments
    dconf,      \* simulator: the "auxfiles" part of the manifest, row of the grating
    registry,   \* simulator: registry_md5 (ordered) and registry_label
    faux_dict,  \* simulator: the output dictionary being filled
    fetched,    \* simulator: the files fetched so far with the result of each, in order
    resolved,   \* simulator: what define_auxiliary_files returned to main()
    trace,      \* simulator: the steps main() has taken, in order
    outcome     \* simulator: what define_auxiliary_files / main ended with

calvars == <<cal, other, last>>
simvars == <<pc, argv, dconf, registry, faux_dict, fetched, resolved, trace, outcome>>
vars == <<cal, other, last, pc, argv, dconf, registry, faux_dict, fetched, resolved, trace, outcome>>

----------------------------------------------------------------------------
(* Bounds of the model *)

\* pixel coordinates tried are j/2 for j in 0..MaxPixel
MaxPixel == 3

\* file names a manifest may assign: FileName(1) .. FileName(NFiles)
NFiles == 4

\* readout-noise arguments tried: -MaxRNoise .. MaxRNoise
MaxRNoise == 1

\* constructor calls tried: at most MaxDeviations of the four arguments differ
\* from the values define_from_grating passes
MaxDeviations == 1

----------------------------------------------------------------------------
(* Exact arithmetic standing for numpy float arithmetic *)

Abs(n) == IF n < 0 THEN -n ELSE n

Sign(n) == IF n < 0 THEN -1 ELSE IF n = 0 THEN 0 ELSE 1

RECURSIVE GCD(_, _)
GCD(a, b) == IF b = 0 THEN a ELSE GCD(b, a % b)

Rat(n, d) ==
    LET g == GCD(Abs(n), d)
    IN  [n |-> n \div g, d |-> d \div g]

NonFinite(s) == [n |-> s, d |-> 0]

RAdd(a, b) ==
    IF a.d = 0 THEN a
    ELSE IF b.d = 0 THEN b
    ELSE Rat(a.n * b.d + b.n * a.d, a.d * b.d)

RNeg(a) == [n |-> -a.n, d |-> a.d]

RSub(a, b) == RAdd(a, RNeg(b))

RMul(a, b) ==
    IF a.d = 0 \/ b.d = 0 THEN NonFinite(Sign(a.n) * Sign(b.n))
    ELSE Rat(a.n * b.n, a.d * b.d)

RDiv(a, b) ==
    IF a.d = 0 THEN (IF b.d = 0 THEN NonFinite(0) ELSE NonFinite(a.n * (IF b.n < 0 THEN -1 ELSE 1)))
    ELSE IF b.d = 0 THEN (IF b.n = 0 THEN NonFinite(0) ELSE Rat(0, 1))
    ELSE IF b.n = 0 THEN NonFinite(Sign(a.n))
    ELSE Rat(a.n * b.d * Sign(b.n), a.d * Abs(b.n))

\* float ==: nan differs from everything, itself included
REq(a, b) == IF a.d = 0 /\ a.n = 0 THEN FALSE ELSE a = b

RECURSIVE Pow10(_)
Pow10(e) == IF e = 0 THEN 1 ELSE 10 * Pow10(e - 1)

\* a value times 10^e
Scale10(a, e) ==
    IF a.d = 0 THEN a
    ELSE IF e >= 0 THEN Rat(a.n * Pow10(e), a.d)
    ELSE Rat(a.n, a.d * Pow10(-e))

One == Rat(1, 1)

----------------------------------------------------------------------------
(* astropy units and quantities *)

UnitOf(l, p, t, k) == [L |-> l, P |-> p, T |-> t, k |-> k]

dimensionless_unscaled == UnitOf(0, 0, 0, 0)
pix == UnitOf(0, 1, 0, 0)
micrometer == UnitOf(1, 0, 0, 0)
nanometer == UnitOf(1, 0, 0, -3)
second == UnitOf(0, 0, 1, 0)

UMul(a, b) == UnitOf(a.L + b.L, a.P + b.P, a.T + b.T, a.k + b.k)

UDiv(a, b) == UnitOf(a.L - b.L, a.P - b.P, a.T - b.T, a.k - b.k)

micrometer_per_pix == UDiv(micrometer, pix)

\* the unit as the f-strings of the error messages print it
UnitName(unit) ==
    CASE unit = dimensionless_unscaled -> ""
      [] unit = pix -> "pix"
      [] unit = micrometer -> "micron"
      [] unit = nanometer -> "nm"
      [] unit = second -> "s"
      [] unit = micrometer_per_pix -> "micron / pix"
      [] OTHER -> "composite"

\* two units measure the same physical dimension (one converts to the other)
SameDim(a, b) == a.L = b.L /\ a.P = b.P /\ a.T = b.T

Quantity(v, unit) == [v |-> v, q |-> TRUE, u |-> unit]

Plain(v) == [v |-> v, q |-> FALSE, u |-> dimensionless_unscaled]

\* hasattr(arg, 'unit'): quantities have the attribute; numbers, units and
\* LinearWaveCal instances have not
HasUnit(arg) == "q" \in DOMAIN arg /\ arg.q

Ok(x) == [ok |-> TRUE, val |-> x]

Raise(kind, about) == [ok |-> FALSE, kind |-> kind, about |-> about]

\* the value v, given in unit from, expressed in unit to (same dimension)
ConvertValue(v, from, to) == Scale10(v, from.k - to.k)

\* a bare 0, inf or nan combines with a quantity of any unit
ArbitraryUnit(a) == ~a.q /\ (a.v.n = 0 \/ a.v.d = 0)

\* Quantity.__add__ / __radd__: the result takes the unit of the left operand
QAdd(a, b) ==
    IF a.q /\ b.q
    THEN IF SameDim(a.u, b.u)
         THEN Ok(Quantity(RAdd(a.v, ConvertValue(b.v, b.u, a.u)), a.u))
         ELSE Raise("UnitConversionError", UnitName(b.u))
    ELSE IF ~a.q /\ ~b.q
    THEN Ok(Plain(RAdd(a.v, b.v)))
    ELSE LET qq == IF a.q THEN a ELSE b
             pp == IF a.q THEN b ELSE a
         IN  IF ArbitraryUnit(pp)
             THEN Ok(Quantity(RAdd(qq.v, pp.v), qq.u))
             ELSE IF SameDim(qq.u, dimensionless_unscaled)
             THEN Ok(Quantity(RAdd(ConvertValue(qq.v, qq.u, dimensionless_unscaled), pp.v),
                              dimensionless_unscaled))
             ELSE Raise("UnitConversionError", UnitName(qq.u))

QNeg(a) == [a EXCEPT !.v = RNeg(a.v)]

QSub(a, b) == QAdd(a, QNeg(b))

QMul(a, b) ==
    IF a.q /\ b.q THEN Ok(Quantity(RMul(a.v, b.v), UMul(a.u, b.u)))
    ELSE IF a.q THEN Ok(Quantity(RMul(a.v, b.v), a.u))
    ELSE IF b.q THEN Ok(Quantity(RMul(a.v, b.v), b.u))
    ELSE Ok(Plain(RMul(a.v, b.v)))

QDiv(a, b) ==
    IF a.q /\ b.q THEN Ok(Quantity(RDiv(a.v, b.v), UDiv(a.u, b.u)))
    ELSE IF a.q THEN Ok(Quantity(RDiv(a.v, b.v), a.u))
    ELSE IF b.q THEN Ok(Quantity(RDiv(a.v, b.v), UDiv(dimensionless_unscaled, b.u)))
    ELSE Ok(Plain(RDiv(a.v, b.v)))

\* Quantity.__eq__: the other operand is converted to the own unit; operands
\* that do not convert are unequal
QEq(a, b) ==
    IF a.q /\ b.q
    THEN SameDim(a.u, b.u) /\ REq(a.v, ConvertValue(b.v, b.u, a.u))
    ELSE IF ~a.q /\ ~b.q
    THEN REq(a.v, b.v)
    ELSE LET qq == IF a.q THEN a ELSE b
             pp == IF a.q THEN b ELSE a
         IN  IF ArbitraryUnit(pp) THEN REq(qq.v, pp.v)
             ELSE SameDim(qq.u, dimensionless_unscaled)
                  /\ REq(ConvertValue(qq.v, qq.u, dimensionless_unscaled), pp.v)

----------------------------------------------------------------------------
(* fridadrp.core *)

FRIDA_VALID_GRATINGS == {"low-zJ", "medium-K", "high-K"}

FRIDA_NAXIS1_HAWAII == Quantity(Rat(2048, 1), pix)

----------------------------------------------------------------------------
(* check_units: the decorator *)

\* A call is a sequence args of positional arguments (args[1] is self, the
\* Python index of args[j] is j - 1) and a function kwargs from parameter
\* names to values.

\* the Python integer i as a dictionary key: no parameter name equals it
IntKey(i) == <<"0", "1", "2", "3", "4", "5">>[i + 1]

NoneUnit == [none |-> TRUE]

\* expected_units.get(key), expected_units being the decorator's keywords in order
ExpectedGet(expected_units, key) ==
    IF \E j \in 1..Len(expected_units) : expected_units[j].name = key
    THEN expected_units[CHOOSE j \in 1..Len(expected_units) : expected_units[j].name = key].unit
    ELSE NoneUnit

\* line 24: the positional argument of Python index i is refused
PositionalMismatch(expected_units, args, i) ==
    LET expected_unit == ExpectedGet(expected_units, IntKey(i))
        arg == args[i + 1]
    IN  expected_unit # NoneUnit /\ HasUnit(arg) /\ arg.u # expected_unit

\* line 30: the keyword argument of the j-th expected unit is refused
KeywordMismatch(expected_units, kwargs, j) ==
    LET arg_name == expected_units[j].name
        expected_unit == expected_units[j].unit
    IN  arg_name \in DOMAIN kwargs
        /\ HasUnit(kwargs[arg_name])
        /\ kwargs[arg_name].u # expected_unit

Least(S) == CHOOSE x \in S : \A y \in S : x <= y

check_units(expected_units, args, kwargs) ==
    LET badpos == {i \in 0..(Len(args) - 1) : PositionalMismatch(expected_units, args, i)}
        badkw == {j \in 1..Len(expected_units) : KeywordMismatch(expected_units, kwargs, j)}
    IN  IF badpos # {} THEN Raise("ValueError", IntKey(Least(badpos) + 1))
        ELSE IF badkw # {} THEN Raise("ValueError", expected_units[Least(badkw)].name)
        ELSE Ok(TRUE)

\* Python's binding of a call to the parameters params (self first)
Bindable(params, args, kwargs) ==
    /\ Len(args) <= Len(params)
    /\ \A j \in 1..Len(params) :
          (j <= Len(args)) # (params[j] \in DOMAIN kwargs)
    /\ DOMAIN kwargs \subseteq {params[j] : j \in 1..Len(params)}

Arg(params, args, kwargs, j) ==
    IF j <= Len(args) THEN args[j] ELSE kwargs[params[j]]

----------------------------------------------------------------------------
(* class LinearWaveCal *)

NoInstance == [none |-> TRUE]

NewObject == [fresh |-> TRUE]

InitUnits ==
    << [name |-> "crpix1_wavecal", unit |-> pix],
       [name |-> "crval1_wavecal", unit |-> micrometer],
       [name |-> "cdelt1_wavecal", unit |-> micrometer_per_pix],
       [name |-> "naxis1_wavecal", unit |-> pix] >>

InitParams == <<"self", "crpix1_wavecal", "crval1_wavecal", "cdelt1_wavecal", "naxis1_wavecal">>

\* __init__: the instance's __dict__
LinearWaveCal_init(self, crpix1_wavecal, crval1_wavecal, cdelt1_wavecal, naxis1_wavecal) ==
    [attr \in {"crpix1_wavecal", "crval1_wavecal", "cdelt1_wavecal", "naxis1_wavecal"} |->
        CASE attr = "crpix1_wavecal" -> crpix1_wavecal
          [] attr = "crval1_wavecal" -> crval1_wavecal
          [] attr = "cdelt1_wavecal" -> cdelt1_wavecal
          [] attr = "naxis1_wavecal" -> naxis1_wavecal]

\* LinearWaveCal(*args, **kwargs): the decorated __init__
LinearWaveCal(args, kwargs) ==
    LET full == <<NewObject>> \o args
        chk == check_units(InitUnits, full, kwargs)
    IN  IF ~chk.ok THEN chk
        ELSE IF ~Bindable(InitParams, full, kwargs) THEN Raise("TypeError", "__init__")
        ELSE Ok(LinearWaveCal_init(full[1],
                                   Arg(InitParams, full, kwargs, 2),
                                   Arg(InitParams, full, kwargs, 3),
                                   Arg(InitParams, full, kwargs, 4),
                                   Arg(InitParams, full, kwargs, 5)))

\* the keyword arguments of a call whose first npos values are positional
KeywordsFrom(names, values, npos) ==
    [name \in {names[j] : j \in (npos + 1)..Len(names)} |->
        values[CHOOSE j \in 1..Len(names) : names[j] = name]]

\* a variant that falls through to the medium-K recipe for every valid grating
define_from_grating_any_recipe(grating) ==
    IF grating \notin FRIDA_VALID_GRATINGS
    THEN Raise("ValueError", grating)
    ELSE LET made == LinearWaveCal(<<>>, KeywordsFrom(Tail(InitParams),
                <<Quantity(Rat(1, 1), pix), Quantity(Rat(19344, 10000), micrometer),
                  Quantity(Rat(285, 1000000), micrometer_per_pix), FRIDA_NAXIS1_HAWAII>>, 0))
         IN  IF made.ok THEN Ok(made.val @@ ("grating" :> grating)) ELSE made

define_from_grating(grating) ==
    IF grating \notin FRIDA_VALID_GRATINGS
    THEN Raise("ValueError", grating)
    ELSE IF grating = "medium-K"
    THEN LET crpix1 == Quantity(Rat(1, 1), pix)
             crval1 == Quantity(Rat(19344, 10000), micrometer)
             cdelt1 == Quantity(Rat(285, 1000000), micrometer_per_pix)
             naxis1 == FRIDA_NAXIS1_HAWAII
             made == LinearWaveCal(<<>>, KeywordsFrom(Tail(InitParams),
                                                    <<crpix1, crval1, cdelt1, naxis1>>, 0))
         IN  IF made.ok THEN Ok(made.val @@ ("grating" :> grating)) ELSE made
    ELSE Raise("ValueError", grating)

\* dict.__eq__ on two __dict__: the same keys, and == on each pair of values
LinearWaveCal_eq(self, o) ==
    /\ DOMAIN self = DOMAIN o
    /\ \A attr \in DOMAIN self :
          IF attr = "grating" THEN self[attr] = o[attr] ELSE QEq(self[attr], o[attr])

\* a variant that takes the array index as a FITS pixel (no + 1)
wave_at_pixel_no_offset(self, pixel) ==
    IF ~HasUnit(pixel)
    THEN Raise("ValueError", "pixel")
    ELSE IF pixel.u # pix /\ pixel.u # dimensionless_unscaled
    THEN Raise("ValueError", UnitName(pixel.u))
    ELSE LET fitspixel == Quantity(pixel.v, pix)
             diff == QSub(fitspixel, self["crpix1_wavecal"])
             prod == IF diff.ok THEN QMul(diff.val, self["cdelt1_wavecal"]) ELSE diff
         IN  IF prod.ok THEN QAdd(self["crval1_wavecal"], prod.val) ELSE prod

wave_at_pixel(self, pixel) ==
    IF ~HasUnit(pixel)
    THEN Raise("ValueError", "pixel")
    ELSE IF pixel.u # pix /\ pixel.u # dimensionless_unscaled
    THEN Raise("ValueError", UnitName(pixel.u))
    ELSE LET fitspixel == IF pixel.u = pix THEN pixel ELSE Quantity(RAdd(pixel.v, One), pix)
             diff == QSub(fitspixel, self["crpix1_wavecal"])
             prod == IF diff.ok THEN QMul(diff.val, self["cdelt1_wavecal"]) ELSE diff
         IN  IF prod.ok THEN QAdd(self["crval1_wavecal"], prod.val) ELSE prod

PixelAtWaveUnits == << [name |-> "wave", unit |-> micrometer] >>

PixelAtWaveParams == <<"self", "wave", "return_units">>

\* a variant that returns the FITS pixel value as the array index (no - 1)
pixel_at_wave_body_no_offset(self, wave, return_units) ==
    IF return_units # pix /\ return_units # dimensionless_unscaled
    THEN Raise("ValueError", UnitName(return_units))
    ELSE IF ~HasUnit(self["crval1_wavecal"])
    THEN Raise("AttributeError", "unit")
    ELSE IF ~HasUnit(wave)
    THEN Raise("AttributeError", "to")
    ELSE LET waveunit == self["crval1_wavecal"].u
         IN  IF ~SameDim(wave.u, waveunit)
             THEN Raise("UnitConversionError", UnitName(wave.u))
             ELSE LET conv == Quantity(ConvertValue(wave.v, wave.u, waveunit), waveunit)
                      diff == QSub(conv, self["crval1_wavecal"])
                      quot == IF diff.ok THEN QDiv(diff.val, self["cdelt1_wavecal"]) ELSE diff
                      fitspixel == IF quot.ok THEN QAdd(quot.val, self["crpix1_wavecal"]) ELSE quot
                  IN  IF ~fitspixel.ok THEN fitspixel
                      ELSE IF return_units = pix THEN fitspixel
                      ELSE Ok(Quantity(fitspixel.val.v, dimensionless_unscaled))

\* the body of pixel_at_wave
pixel_at_wave_body(self, wave, return_units) ==
    IF return_units # pix /\ return_units # dimensionless_unscaled
    THEN Raise("ValueError", UnitName(return_units))
    ELSE IF ~HasUnit(self["crval1_wavecal"])
    THEN Raise("AttributeError", "unit")
    ELSE IF ~HasUnit(wave)
    THEN Raise("AttributeError", "to")
    ELSE LET waveunit == self["crval1_wavecal"].u
         IN  IF ~SameDim(wave.u, waveunit)
             THEN Raise("UnitConversionError", UnitName(wave.u))
             ELSE LET conv == Quantity(ConvertValue(wave.v, wave.u, waveunit), waveunit)
                      diff == QSub(conv, self["crval1_wavecal"])
                      quot == IF diff.ok THEN QDiv(diff.val, self["cdelt1_wavecal"]) ELSE diff
                      fitspixel == IF quot.ok THEN QAdd(quot.val, self["crpix1_wavecal"]) ELSE quot
                  IN  IF ~fitspixel.ok THEN fitspixel
                      ELSE IF return_units = pix THEN fitspixel
                      ELSE Ok(Quantity(RSub(fitspixel.val.v, One), dimensionless_unscaled))

\* self.pixel_at_wave(*args, **kwargs): the decorated method; args excludes self
pixel_at_wave(self, args, kwargs) ==
    LET full == <<self>> \o args
        chk == check_units(PixelAtWaveUnits, full, kwargs)
    IN  IF ~chk.ok THEN chk
        ELSE IF ~Bindable(PixelAtWaveParams, full, kwargs) THEN Raise("TypeError", "pixel_at_wave")
        ELSE pixel_at_wave_body(full[1],
                                Arg(PixelAtWaveParams, full, kwargs, 2),
                                Arg(PixelAtWaveParams, full, kwargs, 3))

----------------------------------------------------------------------------
(* The values the callers of the library are given to pass *)

CrpixInputs == {Quantity(One, pix), Plain(One)}

CrvalInputs == {Quantity(Rat(19344, 10000), micrometer), Quantity(Rat(19344, 10), nanometer)}

CdeltInputs ==
    {Quantity(Rat(285, 1000000), micrometer_per_pix),
     Quantity(Rat(0, 1), micrometer_per_pix),
     Quantity(Rat(285, 1000000), micrometer)}

NaxisInputs == {FRIDA_NAXIS1_HAWAII, Plain(Rat(2048, 1))}

WellFormed ==
    <<Quantity(One, pix), Quantity(Rat(19344, 10000), micrometer),
      Quantity(Rat(285, 1000000), micrometer_per_pix), FRIDA_NAXIS1_HAWAII>>

ConstructorInputs ==
    {t \in CrpixInputs \X CrvalInputs \X CdeltInputs \X NaxisInputs :
        Cardinality({j \in 1..4 : t[j] # WellFormed[j]}) <= MaxDeviations}

GratingInputs == FRIDA_VALID_GRATINGS \cup {"bogus"}

PixelInputs ==
    {Quantity(Rat(j, 2), unit) : j \in 0..MaxPixel, unit \in {pix, dimensionless_unscaled}}
        \cup {Plain(One), Quantity(One, micrometer)}

WaveInputs ==
    {Quantity(Rat(19344, 10000), micrometer),
     Quantity(Rat(19344, 10), nanometer),
     Quantity(Rat(19344, 10000), second),
     Plain(Rat(19344, 10000))}

ReturnUnitInputs == {pix, dimensionless_unscaled, micrometer}

Targets == {"cal", "other"}

----------------------------------------------------------------------------
(* The simulator at rest, while the library is exercised *)

SimIdle ==
    /\ pc = "idle"
    /\ argv = [none |-> TRUE]
    /\ dconf = [none |-> TRUE]
    /\ registry = [none |-> TRUE]
    /\ faux_dict = [none |-> TRUE]
    /\ fetched = <<>>
    /\ resolved = [none |-> TRUE]
    /\ trace = <<>>
    /\ outcome = [none |-> TRUE]

----------------------------------------------------------------------------
(* The library's operations *)

Init ==
    /\ cal = NoInstance
    /\ other = NoInstance
    /\ last = [op |-> "none"]
    /\ SimIdle

\* an instance is bound to a name once and never rebuilt
Store(target, made) ==
    /\ (IF target = "cal" THEN cal ELSE other) = NoInstance
    /\ cal' = IF made.ok /\ target = "cal" THEN made.val ELSE cal
    /\ other' = IF made.ok /\ target = "other" THEN made.val ELSE other

\* target = LinearWaveCal(...), the first npos arguments positional, the rest by keyword
Construct(target, values, npos) ==
    LET made == LinearWaveCal(SubSeq(values, 1, npos),
                              KeywordsFrom(Tail(InitParams), values, npos))
    IN  /\ Store(target, made)
        /\ last' = [op |-> "init", target |-> target, values |-> values,
                    npos |-> npos, out |-> made]
        /\ UNCHANGED simvars

\* target = LinearWaveCal.define_from_grating(grating)
DefineFromGrating(target, grating) ==
    LET made == define_from_grating(grating)
    IN  /\ Store(target, made)
        /\ last' = [op |-> "define_from_grating", target |-> target,
                    grating |-> grating, out |-> made]
        /\ UNCHANGED simvars

\* cal.wave_at_pixel(pixel)
WaveAtPixel(pixel) ==
    /\ cal # NoInstance
    /\ last' = [op |-> "wave_at_pixel", pixel |-> pixel, out |-> wave_at_pixel(cal, pixel)]
    /\ UNCHANGED <<cal, other>>
    /\ UNCHANGED simvars

\* the wavelength returned by the call just made, if the last call was wave_at_pixel
JustComputed == IF last.op = "wave_at_pixel" /\ last.out.ok THEN {last.out.val} ELSE {}

\* cal.pixel_at_wave(wave, return_units), the first npos arguments positional
PixelAtWave(wave, return_units, npos) ==
    /\ cal # NoInstance
    /\ last' = [op |-> "pixel_at_wave", wave |-> wave, return_units |-> return_units,
                npos |-> npos,
                of_pixel |-> IF wave \in JustComputed
                             THEN [known |-> TRUE, pixel |-> last.pixel]
                             ELSE [known |-> FALSE, pixel |-> Plain(One)],
                out |-> pixel_at_wave(cal, SubSeq(<<wave, return_units>>, 1, npos),
                                      KeywordsFrom(Tail(PixelAtWaveParams),
                                                   <<wave, return_units>>, npos))]
    /\ UNCHANGED <<cal, other>>
    /\ UNCHANGED simvars

\* cal == other
Compare ==
    /\ cal # NoInstance
    /\ other # NoInstance
    /\ last' = [op |-> "eq", out |-> LinearWaveCal_eq(cal, other)]
    /\ UNCHANGED <<cal, other>>
    /\ UNCHANGED simvars

Next ==
    \/ \E target \in Targets, grating \in GratingInputs : DefineFromGrating(target, grating)
    \/ \E target \in Targets, values \in ConstructorInputs, npos \in 0..4 :
            Construct(target, values, npos)
    \/ \E pixel \in PixelInputs : WaveAtPixel(pixel)
    \/ \E wave \in WaveInputs \cup JustComputed, return_units \in ReturnUnitInputs, npos \in 0..2 :
            PixelAtWave(wave, return_units, npos)
    \/ Compare

Spec == Init /\ [][Next]_vars

----------------------------------------------------------------------------
(* Properties of the library *)

FourQuantities == {"crpix1_wavecal", "crval1_wavecal", "cdelt1_wavecal", "naxis1_wavecal"}

\* the instance holds every parameter as a quantity in the unit __init__ declares
DeclaredUnits(self) ==
    \A j \in 1..Len(InitUnits) :
        HasUnit(self[InitUnits[j].name]) /\ self[InitUnits[j].name].u = InitUnits[j].unit

\* C1: for the calibration define_from_grating returns, pixel_at_wave applied to
\* the wavelength wave_at_pixel gave for a pixel p, with return_units the unit
\* of p (pix or dimensionless), returns p in that same unit.
RoundTripIsIdentity ==
    (/\ last.op = "pixel_at_wave"
     /\ last.of_pixel.known
     /\ "grating" \in DOMAIN cal
     /\ last.return_units = last.of_pixel.pixel.u)
    => last.out = Ok(last.of_pixel.pixel)

RoundTripWitness ==
    /\ last.op = "pixel_at_wave"
    /\ last.of_pixel.known
    /\ "grating" \in DOMAIN cal
    /\ last.npos = 1
    /\ last.return_units = dimensionless_unscaled
    /\ last.of_pixel.pixel = Quantity(Rat(3, 2), dimensionless_unscaled)
    /\ last.out = Ok(Quantity(Rat(3, 2), dimensionless_unscaled))

\* the 1-indexed FITS pixel value an accepted pixel argument stands for
FitsValue(pixel) == IF pixel.u = pix THEN pixel.v ELSE RAdd(pixel.v, One)

\* C2: wave_at_pixel accepts a quantity in pix (a 1-indexed FITS pixel) and a
\* dimensionless quantity p (a 0-indexed array index), which gives the same
\* result as (p + 1) pix, namely crval1 + (p + 1 - crpix1) * cdelt1 on an
\* instance holding its declared units; any other argument (no unit, another
\* unit) fails with an error and returns no wavelength.
WaveAtPixelConventions ==
    last.op = "wave_at_pixel" =>
        IF HasUnit(last.pixel) /\ last.pixel.u \in {pix, dimensionless_unscaled}
        THEN /\ last.out = wave_at_pixel(cal, Quantity(FitsValue(last.pixel), pix))
             /\ DeclaredUnits(cal) =>
                    last.out = Ok(Quantity(
                        RAdd(cal["crval1_wavecal"].v,
                             RMul(RSub(FitsValue(last.pixel), cal["crpix1_wavecal"].v),
                                  cal["cdelt1_wavecal"].v)),
                        micrometer))
        ELSE ~last.out.ok /\ last.out.kind = "ValueError"

WaveAtPixelRejectsWitness ==
    /\ last.op = "wave_at_pixel"
    /\ DeclaredUnits(cal)
    /\ last.pixel = Quantity(One, micrometer)
    /\ ~last.out.ok

\* C3: two instances compare equal if and only if their four defining
\* quantities (value and unit) are equal, however each was built.
EqualIffSameFourQuantities ==
    last.op = "eq" =>
        (last.out <=> \A attr \in FourQuantities : cal[attr] = other[attr])

\* C4: define_from_grating returns an instance only for a valid grating with a
\* recipe; for a grating outside the valid set, or valid without a recipe, it
\* fails with an error naming the grating and returns no instance.
DefineFromGratingRejects ==
    last.op = "define_from_grating" =>
        LET held == IF last.target = "cal" THEN cal ELSE other
        IN  IF last.grating \in FRIDA_VALID_GRATINGS /\ last.grating = "medium-K"
            THEN last.out.ok /\ held = last.out.val /\ held["grating"] = last.grating
            ELSE /\ ~last.out.ok
                 /\ last.out.kind = "ValueError"
                 /\ last.out.about = last.grating
                 /\ held = NoInstance

DefineFromGratingNoRecipeWitness ==
    /\ last.op = "define_from_grating"
    /\ last.grating \in FRIDA_VALID_GRATINGS
    /\ last.grating # "medium-K"
    /\ ~last.out.ok

\* C5: constructing a LinearWaveCal with a parameter that carries no unit, or
\* a unit other than the declared one, fails, whether the parameter is passed
\* positionally or by keyword.
ConstructorChecksEveryUnit ==
    last.op = "init" =>
        ((\E j \in 1..4 : ~HasUnit(last.values[j]) \/ last.values[j].u # InitUnits[j].unit)
            => ~last.out.ok)

\* C6: every instance that exists has cdelt1 different from zero.
DispersionNeverZero ==
    /\ cal # NoInstance => cal["cdelt1_wavecal"].v.n # 0
    /\ other # NoInstance => other["cdelt1_wavecal"].v.n # 0

\* C11: the outcome of pixel_at_wave for a wavelength quantity and return_units
\* does not depend on how the wavelength is passed: the call just made and the
\* same call with the wavelength passed the other way (by keyword instead of
\* positionally, positionally instead of by keyword) both fail or both return
\* the same pixel value.
WavePassingIsIrrelevant ==
    (last.op = "pixel_at_wave" /\ HasUnit(last.wave)) =>
        LET values == <<last.wave, last.return_units>>
            flipped == IF last.npos = 0 THEN 1 ELSE 0
            otherway == pixel_at_wave(cal, SubSeq(values, 1, flipped),
                                      KeywordsFrom(Tail(PixelAtWaveParams), values, flipped))
        IN  /\ last.out.ok <=> otherway.ok
            /\ last.out.ok => last.out.val = otherway.val

----------------------------------------------------------------------------
(* frida_ifu_simulator: the manifest and the registry *)

FileName(i) == <<"f1", "f2", "f3", "f4", "f5", "f6">>[i]

FileNames == {FileName(i) : i \in 1..NFiles}

\* JSON null / Python None
null == "null"

\* the labels of the manifest, in the order define_auxiliary_files registers them
Labels == <<"skycalc", "EMIR-arc-delta-lines", "flatpix2pix", "model_ifu2detector">>

\* the md5 the manifest gives for the artifact of a label
HashOf(label) ==
    CASE label = "skycalc" -> "md5-skycalc"
      [] label = "EMIR-arc-delta-lines" -> "md5-arc"
      [] label = "flatpix2pix" -> "md5-flat"
      [] label = "model_ifu2detector" -> "md5-model"

Absent == [absent |-> TRUE]

\* d[label] for the labels common to all gratings
CommonEntries(label) == {[filename |-> f, md5 |-> HashOf(label)] : f \in FileNames}

\* d[label][grating] for the requested grating: no such row, or a row whose
\* filename and md5 may be null
GratingEntries(label) ==
    {Absent} \cup
    {[filename |-> f, md5 |-> m] : f \in FileNames \cup {null}, m \in {HashOf(label), null}}

\* dconf['auxfiles'], the rows of the other gratings left out (they are not read)
Manifests ==
    {[label \in {Labels[j] : j \in 1..4} |->
        CASE label = "skycalc" -> e1
          [] label = "EMIR-arc-delta-lines" -> e2
          [] label = "flatpix2pix" -> e3
          [] label = "model_ifu2detector" -> e4] :
      e1 \in CommonEntries("skycalc"), e2 \in CommonEntries("EMIR-arc-delta-lines"),
      e3 \in GratingEntries("flatpix2pix"), e4 \in GratingEntries("model_ifu2detector")}

NoManifest == [none |-> TRUE]

EmptyDict == [x \in {} |-> x]

\* d[key] = value on a Python dict
PutItem(d, key, value) == [x \in DOMAIN d \cup {key} |-> IF x = key THEN value ELSE d[x]]

Range(seq) == {seq[j] : j \in 1..Len(seq)}

EmptyRegistry == [order |-> <<>>, label |-> EmptyDict, md5 |-> EmptyDict]

\* a variant that keeps the label a file name was first registered under
RegistryPut_keep_first(reg, filename, label, md5) ==
    [order |-> IF filename \in Range(reg.order) THEN reg.order ELSE Append(reg.order, filename),
     label |-> IF filename \in DOMAIN reg.label THEN reg.label
               ELSE PutItem(reg.label, filename, label),
     md5 |-> PutItem(reg.md5, filename, <<"md5", md5>>)]

\* registry_label[filename] = label; registry_md5[filename] = f"md5:{md5}"
\* (order: the keys of registry_md5 in insertion order)
RegistryPut(reg, filename, label, md5) ==
    [order |-> IF filename \in Range(reg.order) THEN reg.order ELSE Append(reg.order, filename),
     label |-> PutItem(reg.label, filename, label),
     md5 |-> PutItem(reg.md5, filename, <<"md5", md5>>)]

Defined(entry) == entry.filename # null /\ entry.md5 # null

\* a variant that leaves an artifact not yet defined out of the registry
BuildRegistry_skip_undefined(d, grating) ==
    LET r1 == RegistryPut(EmptyRegistry, d["skycalc"].filename, "skycalc", d["skycalc"].md5)
        r2 == RegistryPut(r1, d["EMIR-arc-delta-lines"].filename, "EMIR-arc-delta-lines",
                          d["EMIR-arc-delta-lines"].md5)
        flat == d["flatpix2pix"]
        model == d["model_ifu2detector"]
        r3 == IF flat # Absent /\ Defined(flat)
              THEN RegistryPut(r2, flat.filename, "flatpix2pix", flat.md5) ELSE r2
        r4 == IF model # Absent /\ Defined(model)
              THEN RegistryPut(r3, model.filename, "model_ifu2detector", model.md5) ELSE r3
    IN  Ok(r4)

\* lines 72-104: the registries for the grating, or the error raised
BuildRegistry(d, grating) ==
    LET r1 == RegistryPut(EmptyRegistry, d["skycalc"].filename, "skycalc", d["skycalc"].md5)
        r2 == RegistryPut(r1, d["EMIR-arc-delta-lines"].filename, "EMIR-arc-delta-lines",
                          d["EMIR-arc-delta-lines"].md5)
        flat == d["flatpix2pix"]
        model == d["model_ifu2detector"]
    IN  IF flat = Absent THEN Raise("KeyError", grating)
        ELSE IF ~Defined(flat) THEN Raise("SystemExit", grating)
        ELSE LET r3 == RegistryPut(r2, flat.filename, "flatpix2pix", flat.md5)
             IN  IF model = Absent THEN Raise("KeyError", grating)
                 ELSE IF ~Defined(model) THEN Raise("SystemExit", grating)
                 ELSE Ok(RegistryPut(r3, model.filename, "model_ifu2detector", model.md5))

\* the path pooch.fetch returns for a file of the registry
LocalPath(filename) == <<"fridadrp-cache", filename>>

\* what a download can end with
FetchResults == {"ok", "hash_mismatch", "unavailable"}

\* a variant that gives up on a network failure only
FetchAborts_unavailable_only(result) == result = "unavailable"

\* lines 119-124: pooch.fetch raises on any failure and the handler re-raises
FetchAborts(result) == result # "ok"

\* a variant that refuses only noise below -MaxRNoise
InvalidReadoutNoise_off(rnoise) == rnoise < -MaxRNoise

\* line 167
InvalidReadoutNoise(rnoise) == rnoise < 0

\* fridadrp.processing.linear_wavelength_calibration_frida
LinearWaveCalFRIDA(grating) == define_from_grating(grating)

----------------------------------------------------------------------------
(* frida_ifu_simulator: main() step by step *)

RNoiseInputs == (-MaxRNoise)..MaxRNoise

SimInit ==
    /\ cal = NoInstance
    /\ other = NoInstance
    /\ last = [op |-> "none"]
    /\ pc = "parse_args"
    /\ argv = [none |-> TRUE]
    /\ dconf = NoManifest
    /\ registry = [none |-> TRUE]
    /\ faux_dict = [none |-> TRUE]
    /\ fetched = <<>>
    /\ resolved = [none |-> TRUE]
    /\ trace = <<>>
    /\ outcome = [none |-> TRUE]

\* the run ends with an exception
Exit(kind, about) ==
    /\ pc' = "exit"
    /\ outcome' = Raise(kind, about)

\* parser.parse_args: --grating is one of FRIDA_VALID_GRATINGS or the parser exits
ParseArgs(argc, grating, rnoise) ==
    /\ pc = "parse_args"
    /\ trace' = Append(trace, "parse_args")
    /\ IF grating \notin FRIDA_VALID_GRATINGS
       THEN Exit("SystemExit", grating) /\ UNCHANGED argv
       ELSE /\ argv' = [argc |-> argc, grating |-> grating, rnoise |-> rnoise]
            /\ pc' = "check_argv"
            /\ UNCHANGED outcome
    /\ UNCHANGED <<dconf, registry, faux_dict, fetched, resolved>>
    /\ UNCHANGED calvars

\* lines 152-154
CheckArgv ==
    /\ pc = "check_argv"
    /\ IF argv.argc = 1
       THEN Exit("SystemExit", "usage")
       ELSE pc' = "check_rnoise" /\ UNCHANGED outcome
    /\ UNCHANGED <<argv, dconf, registry, faux_dict, fetched, resolved, trace>>
    /\ UNCHANGED calvars

\* lines 166-168
CheckRNoise ==
    /\ pc = "check_rnoise"
    /\ IF InvalidReadoutNoise(argv.rnoise)
       THEN Exit("ValueError", "rnoise") /\ UNCHANGED trace
       ELSE /\ pc' = "retrieve_conf"
            /\ trace' = Append(trace, "rnoise_ok")
            /\ UNCHANGED outcome
    /\ UNCHANGED <<argv, dconf, registry, faux_dict, fetched, resolved>>
    /\ UNCHANGED calvars

\* lines 62-70: the manifest is downloaded and read; a failed download is not caught
RetrieveConf(result, manifest) ==
    /\ pc = "retrieve_conf"
    /\ trace' = Append(trace, "retrieve_conf")
    /\ IF result = "ok"
       THEN /\ dconf' = manifest
            /\ pc' = "registry"
            /\ UNCHANGED outcome
       ELSE /\ Exit(IF result = "hash_mismatch" THEN "ValueError" ELSE "HTTPError",
                    "configuration_FRIDA_IFU_simulator.json")
            /\ UNCHANGED dconf
    /\ UNCHANGED <<argv, registry, faux_dict, fetched, resolved>>
    /\ UNCHANGED calvars

\* lines 72-117: the registries, the Pooch instance and the empty output dictionary
DefineRegistry ==
    /\ pc = "registry"
    /\ trace' = Append(trace, "registry")
    /\ LET built == BuildRegistry(dconf, argv.grating)
       IN  IF built.ok
           THEN /\ registry' = built.val
                /\ faux_dict' = EmptyDict
                /\ pc' = "fetch"
                /\ UNCHANGED outcome
           ELSE /\ Exit(built.kind, built.about)
                /\ UNCHANGED <<registry, faux_dict>>
    /\ UNCHANGED <<argv, dconf, fetched, resolved>>
    /\ UNCHANGED calvars

\* lines 118-126: one turn of the loop over registry_md5, and the return after the last
Fetch(result) ==
    /\ pc = "fetch"
    /\ LET item == registry.order[Len(fetched) + 1]
           filled == IF result = "ok"
                     THEN PutItem(faux_dict, registry.label[item], LocalPath(item))
                     ELSE faux_dict
       IN  /\ trace' = Append(trace, "fetch")
           /\ fetched' = Append(fetched, [item |-> item, result |-> result])
           /\ faux_dict' = filled
           /\ IF FetchAborts(result)
              THEN Exit("SystemExit", item) /\ UNCHANGED resolved
              ELSE IF Len(fetched) + 1 = Len(registry.order)
              THEN /\ resolved' = Ok(filled)
                   /\ pc' = "wavecal"
                   /\ UNCHANGED outcome
              ELSE UNCHANGED <<pc, resolved, outcome>>
    /\ UNCHANGED <<argv, dconf, registry>>
    /\ UNCHANGED calvars

\* lines 177-183
MakeWaveCal ==
    /\ pc = "wavecal"
    /\ trace' = Append(trace, "wavecal")
    /\ LET made == LinearWaveCalFRIDA(argv.grating)
       IN  IF made.ok
           THEN cal' = made.val /\ pc' = "define_3d_wcs" /\ UNCHANGED outcome
           ELSE Exit(made.kind, made.about) /\ UNCHANGED cal
    /\ UNCHANGED <<other, last>>
    /\ UNCHANGED <<argv, dconf, registry, faux_dict, fetched, resolved>>

\* lines 185-194
DefineWcs ==
    /\ pc = "define_3d_wcs"
    /\ trace' = Append(trace, "define_3d_wcs")
    /\ pc' = "ifu_simulator"
    /\ UNCHANGED <<argv, dconf, registry, faux_dict, fetched, resolved, outcome>>
    /\ UNCHANGED calvars

\* lines 196-209
Simulate ==
    /\ pc = "ifu_simulator"
    /\ trace' = Append(trace, "render")
    /\ pc' = "done"
    /\ UNCHANGED <<argv, dconf, registry, faux_dict, fetched, resolved, outcome>>
    /\ UNCHANGED calvars

SimNext ==
    \/ \E argc \in 1..2, grating \in GratingInputs, rnoise \in RNoiseInputs :
            ParseArgs(argc, grating, rnoise)
    \/ CheckArgv
    \/ CheckRNoise
    \/ \E result \in FetchResults :
         \E manifest \in (IF result = "ok" THEN Manifests ELSE {NoManifest}) :
            RetrieveConf(result, manifest)
    \/ DefineRegistry
    \/ \E result \in FetchResults : Fetch(result)
    \/ MakeWaveCal
    \/ DefineWcs
    \/ Simulate

SimSpec == SimInit /\ [][SimNext]_vars

----------------------------------------------------------------------------
(* Properties of the simulator *)

None == [none |-> TRUE]

InTrace(step) == \E i \in 1..Len(trace) : trace[i] = step

Times(step) == Cardinality({i \in 1..Len(trace) : trace[i] = step})

Shadowed(d, j) == \E k \in (j + 1)..4 : d[Labels[k]].filename = d[Labels[j]].filename

DistinctFileNames(d) == \A j \in 1..4 : ~Shadowed(d, j)

Undefined(entry) == entry = Absent \/ ~Defined(entry)

\* C9: for a grating without a registered flat field or distortion model,
\* define_auxiliary_files fails with an error naming the grating; the failure
\* is final: nothing is retried, no artifact is fetched afterwards and no
\* mapping is returned.
MissingArtifactIsFatal ==
    (/\ InTrace("registry")
     /\ Undefined(dconf["flatpix2pix"]) \/ Undefined(dconf["model_ifu2detector"]))
    => /\ pc = "exit"
       /\ ~outcome.ok
       /\ outcome.kind \in {"SystemExit", "KeyError"}
       /\ outcome.about = argv.grating
       /\ fetched = <<>> /\ ~InTrace("fetch")
       /\ resolved = None
       /\ Times("registry") = 1 /\ Times("retrieve_conf") = 1
       /\ trace[Len(trace)] = "registry"

MissingModelWitness ==
    /\ pc = "exit"
    /\ InTrace("registry")
    /\ ~Undefined(dconf["flatpix2pix"])
    /\ dconf["model_ifu2detector"] # Absent
    /\ dconf["model_ifu2detector"].filename = null
    /\ outcome.kind = "SystemExit"
    /\ outcome.about = argv.grating

\* C10: a fetch that fails its hash check aborts the resolution: nothing is
\* fetched after it and no mapping is returned; a mapping that is returned
\* holds only verified files and is complete for the registry.
HashMismatchAborts ==
    /\ \A i \in 1..Len(fetched) :
          fetched[i].result = "hash_mismatch" =>
              /\ i = Len(fetched)
              /\ pc = "exit"
              /\ ~outcome.ok /\ outcome.kind = "SystemExit"
              /\ resolved = None
              /\ ~InTrace("wavecal") /\ ~InTrace("render")
    /\ resolved # None =>
          /\ Len(fetched) = Len(registry.order)
          /\ \A i \in 1..Len(fetched) : fetched[i].result = "ok"
          /\ DOMAIN resolved.val = {registry.label[f] : f \in Range(registry.order)}
          /\ \A label \in DOMAIN resolved.val :
                \E i \in 1..Len(fetched) :
                    /\ fetched[i].result = "ok"
                    /\ resolved.val[label] = LocalPath(fetched[i].item)

HashMismatchWitness ==
    /\ Len(fetched) = 3
    /\ fetched[3].result = "hash_mismatch"
    /\ DOMAIN faux_dict # {}
    /\ resolved = None
    /\ pc = "exit"

====
